---- MODULE Spec2Model ----
(***************************************************************************)
(* A model of tell-me-why: the RAG chain manager (rag_chain.py), the       *)
(* configuration manager (config.py), the HTTP handlers that tie them      *)
(* together (app.py) and the ingestion pipeline (ingest.py).               *)
(*                                                                         *)
(* Scheduling.  Every handler of app.py is an `async def` that never       *)
(* awaits, so under the application's event loop a handler runs to its     *)
(* end before the next one starts; the ingestion task is a plain function  *)
(* handed to BackgroundTasks and runs on a worker thread.  RAGChainManager *)
(* itself holds no lock.  The variable sched fixes which callers are       *)
(* modelled: "loop" is the event loop of app.py with the handlers that    *)
(* reach the manager and the configuration, "query" is POST /query alone   *)
(* over a collection filled earlier, "serve" is the event loop with POST   *)
(* /query, PUT /config and the ingestion task beside them, "threads"       *)
(* has the callers of the manager on separate threads, each statement of   *)
(* get_chain being one step, and "pipeline" is the ingestion run on its    *)
(* own (ingest.main).                                                      *)
(***************************************************************************)
EXTENDS Integers, Sequences, FiniteSets, TLC

\* ------------------------------------------------------------- bounds
\* NThreads: threads calling the manager; MaxChains: chains constructed;
\* MaxCfg: settings objects installed after the first; MaxRuns: ingestion runs of
\* the pipeline on its own; MaxBgRuns: background runs beside the manager;
\* MaxDocs: files under docs_path; MaxLen: length of a text; ChunkSize: the
\* chunk_size of the settings, scaled down with the texts; MaxTopK: the largest
\* retrieval.top_k a configuration sets
NThreads == 2
MaxChains == 2
MaxCfg == 1
MaxRuns == 2
MaxBgRuns == 1
MaxDocs == 2
MaxLen == 3
ChunkSize == 2
MaxTopK == 2

Threads == 1..NThreads
None == "None"

\* ------------------------------------------------------------ settings
Backends == {"ollama", "claude"}
\* "gpt" stands for any identifier that is neither "ollama" nor "claude"
LlmTypes == Backends \cup {"gpt"}
DefaultEmb == "all-MiniLM-L6-v2"
EmbModels == {DefaultEmb, "all-mpnet-base-v2"}

\* RetrievalConfig.top_k of a Settings() built from nothing
DefaultTopK == 5
\* the values of retrieval.top_k a configuration sets
TopKs == 1..MaxTopK

\* Settings(): anthropic_api_key is None, embedding.model and top_k are the defaults
DefaultSettings == [key |-> FALSE, emb |-> DefaultEmb, top_k |-> DefaultTopK]

\* the contents config.yaml can have: a dumped Settings, or text yaml/pydantic reject
Dumped(s) == [state |-> "ok", key |-> s.key, emb |-> s.emb, top_k |-> s.top_k]
FileContents ==
    {Dumped(s) : s \in [key : BOOLEAN, emb : EmbModels, top_k : {DefaultTopK}]}
Missing == [state |-> "missing", key |-> FALSE, emb |-> DefaultEmb,
            top_k |-> DefaultTopK]
Corrupt == [state |-> "corrupt", key |-> FALSE, emb |-> DefaultEmb,
            top_k |-> DefaultTopK]
FileStates == FileContents \cup {Missing, Corrupt}

\* the bodies of PUT /config: a nested dict setting one field, or one that
\* Settings(**current_config) rejects
Updates == {[field |-> "key", value |-> TRUE], [field |-> "key", value |-> FALSE]}
           \cup {[field |-> "emb", value |-> m] : m \in EmbModels}
           \cup {[field |-> "invalid", value |-> FALSE]}

\* the bodies of PUT /config beside queries: the embedding model or top_k
ServeUpdates == {[field |-> "emb", value |-> m] : m \in EmbModels}
                \cup {[field |-> "top_k", value |-> k] : k \in TopKs}

_deep_update(base, u) ==
    IF u.field = "key" THEN [base EXCEPT !.key = u.value]
    ELSE IF u.field = "emb" THEN [base EXCEPT !.emb = u.value]
    ELSE IF u.field = "top_k" THEN [base EXCEPT !.top_k = u.value]
    ELSE base

Validates(u) == u.field # "invalid"

VARIABLES
    sched,      \* "loop" | "threads" | "pipeline" | "query" | "serve"
    settings,   \* config_manager._settings: [key, emb, top_k, ver]
    file,       \* config.yaml
    cfg,        \* the PUT /config or POST /config/reload request being handled
    chains,     \* chain_manager.chains: llm_type -> chain id
    objs,       \* every RAGChain constructed so far, by id
    pc, req, loc,  \* per caller of the manager: position, request, locals
    clears,     \* number of chains.clear() calls so far
    retired,    \* ids of the chains a clear() removed from the cache
    handed,     \* <<llm_type, id>> that get_chain returned to calls started since the last clear
    nokey,      \* a construction for "claude" has raised for the missing key
    dir,        \* the files under settings.paths.docs_path
    ing,        \* the background ingestion task
    store,      \* the "code_docs" collection: a sequence of stored chunks
    runs,       \* number of ingestion runs started
    noted       \* the first result a query returned: its backend, note, question, sources

vars == <<sched, settings, file, cfg, chains, objs, pc, req, loc, clears, retired,
          handed, nokey, dir, ing, store, runs, noted>>

EmptyDict == [x \in {} |-> 0]
\* no response dict
NoResult == [returned |-> FALSE]
IdleLoc == [missed |-> FALSE, emb |-> None, ver |-> 0, chain |-> 0, err |-> None,
            epoch |-> 0, wrote |-> FALSE, top_k |-> 0, source_docs |-> <<>>,
            res |-> NoResult, qfail |-> FALSE,
            http |-> [status_code |-> 0, detail |-> None]]
IdleReq == [op |-> None, llm_type |-> None, question |-> None]
NoneNoted == [llm_type |-> None, privacy_note |-> None, question |-> None,
              sources |-> <<>>]
IdleCfg == [pc |-> "idle", kind |-> None, old |-> DefaultSettings, status |-> 0]
IdleIng == [pc |-> "idle", emb |-> None, files |-> <<>>, docs |-> <<>>,
            chunks |-> <<>>, outcome |-> None, writes |-> 0, before |-> <<>>,
            language_splitters |-> EmptyDict, calls |-> <<>>, force |-> FALSE]

\* no handler is running on the event loop
LoopFree == cfg.pc = "idle" /\ \A t \in Threads : pc[t] = "idle"
\* a handler may start
MayStart == sched = "threads" \/ (sched \in {"loop", "query", "serve"} /\ LoopFree)
\* the threads that call the manager: the event loop is one thread
Callers == IF sched = "threads" THEN Threads ELSE {1}

Cur(s) == [key |-> s.key, emb |-> s.emb, top_k |-> s.top_k]

\* ----------------------------------------------------- RAGChainManager
\* _initialize_llm without the test of anthropic_api_key
_initialize_llm_NoKeyCheck(llm_type, key) ==
    IF llm_type = "ollama" THEN "OllamaLLM"
    ELSE IF llm_type = "claude" THEN "ChatAnthropic"
    ELSE "ValueError"

\* _initialize_llm whose last branch falls back to the local model
_initialize_llm_NoElse(llm_type, key) ==
    IF llm_type = "claude"
    THEN IF ~key THEN "ValueError" ELSE "ChatAnthropic"
    ELSE "OllamaLLM"

\* The LLM the constructor picks, or the error it raises
_initialize_llm(llm_type, key) ==
    IF llm_type = "ollama" THEN "OllamaLLM"
    ELSE IF llm_type = "claude"
         THEN IF ~key THEN "ValueError" ELSE "ChatAnthropic"
         ELSE "ValueError"

\* the questions of POST /query
Questions == {"q1", "q2"}

\* query_rag's test before it calls the manager:
\* request.llm_type == "claude" and not settings.api_keys.anthropic_api_key
NoKeyForClaude(op, b) == op = "query" /\ b = "claude" /\ ~settings.key

\* except Exception as e: raise HTTPException(status_code=500, detail=str(e)),
\* around the whole body of query_rag; str() of an HTTPException is its status
\* code, a colon and its detail
query_rag_except(e) ==
    [status_code |-> 500,
     detail |-> IF e.status_code = 400 /\ e.detail = "Claude API key not configured"
                THEN "400: Claude API key not configured"
                ELSE e.detail]

\* POST /query for "claude" with no key: the handler raises HTTPException(400)
\* inside its own try block and never calls the manager
QueryRagNoKey(t) ==
    /\ MayStart
    /\ t \in Callers
    /\ pc[t] = "idle"
    /\ NoKeyForClaude("query", "claude")
    /\ pc' = [pc EXCEPT ![t] = "rejected"]
    /\ \E q \in Questions :
          req' = [req EXCEPT ![t] = [op |-> "query", llm_type |-> "claude",
                                    question |-> q]]
    /\ loc' = [loc EXCEPT ![t] =
                  [IdleLoc EXCEPT !.epoch = clears, !.err = "HTTPException",
                                  !.http = query_rag_except(
                                      [status_code |-> 400,
                                       detail |-> "Claude API key not configured"])]]
    /\ UNCHANGED <<sched, noted, settings, file, cfg, chains, objs, clears, retired,
                   handed, ing, store, runs, nokey, dir>>

\* a caller enters get_chain(llm_type), directly or through manager.query
Call(t, op, b) ==
    /\ MayStart
    /\ ~NoKeyForClaude(op, b)
    /\ t \in Callers
    /\ pc[t] = "idle"
    /\ Len(objs) < MaxChains
    /\ pc' = [pc EXCEPT ![t] = "check"]
    /\ \E q \in (IF op = "query" THEN Questions ELSE {None}) :
          req' = [req EXCEPT ![t] = [op |-> op, llm_type |-> b, question |-> q]]
    /\ loc' = [loc EXCEPT ![t] = [IdleLoc EXCEPT !.epoch = clears]]
    /\ UNCHANGED <<sched, noted, settings, file, cfg, chains, objs, clears, retired, handed,
                   ing, store, runs, nokey, dir>>

\* if llm_type not in self.chains:
Check(t) ==
    /\ pc[t] = "check"
    /\ IF req[t].llm_type \notin DOMAIN chains
       THEN /\ pc' = [pc EXCEPT ![t] = "construct"]
            /\ loc' = [loc EXCEPT ![t].missed = TRUE]
       ELSE /\ pc' = [pc EXCEPT ![t] = "lookup"]
            /\ loc' = loc
    /\ UNCHANGED <<sched, noted, settings, file, cfg, chains, objs, req, clears, retired,
                   handed, ing, store, runs, nokey, dir>>

\* RAGChain.__init__ up to the vector store: settings = get_settings(), embeddings
Construct(t) ==
    /\ pc[t] = "construct"
    /\ pc' = [pc EXCEPT ![t] = "init_llm"]
    /\ loc' = [loc EXCEPT ![t].emb = settings.emb, ![t].ver = settings.ver,
                          ![t].top_k = settings.top_k]
    /\ UNCHANGED <<sched, noted, settings, file, cfg, chains, objs, req, clears, retired,
                   handed, ing, store, runs, nokey, dir>>

\* self._initialize_llm(llm_type), which reads get_settings() again, and the
\* rest of the constructor
InitLLM(t) ==
    /\ pc[t] = "init_llm"
    /\ LET llm == _initialize_llm(req[t].llm_type, settings.key) IN
       IF llm = "ValueError"
       THEN /\ pc' = [pc EXCEPT ![t] = "raised"]
            /\ loc' = [loc EXCEPT ![t].err = "ValueError"]
            /\ objs' = objs
            /\ nokey' = (nokey \/ req[t].llm_type = "claude")
       ELSE /\ Len(objs) < MaxChains
            /\ nokey' = nokey
            /\ objs' = Append(objs, [llm_type |-> req[t].llm_type, llm |-> llm,
                                     emb |-> loc[t].emb, ver |-> loc[t].ver,
                                     top_k |-> loc[t].top_k,
                                     epoch |-> loc[t].epoch])
            /\ loc' = [loc EXCEPT ![t].chain = Len(objs) + 1]
            /\ pc' = [pc EXCEPT ![t] = "store"]
    /\ UNCHANGED <<sched, noted, settings, file, cfg, chains, req, clears, retired, handed,
                   ing, store, runs, dir>>

\* self.chains[llm_type] = <the new chain>
Store(t) ==
    /\ pc[t] = "store"
    /\ chains' = (req[t].llm_type :> loc[t].chain) @@ chains
    /\ pc' = [pc EXCEPT ![t] = "lookup"]
    /\ loc' = [loc EXCEPT ![t].wrote = TRUE]
    /\ UNCHANGED <<sched, noted, settings, file, cfg, objs, req, clears, retired,
                   handed, ing, store, runs, nokey, dir>>

\* return self.chains[llm_type]
Lookup(t) ==
    /\ pc[t] = "lookup"
    /\ IF req[t].llm_type \in DOMAIN chains
       THEN /\ loc' = [loc EXCEPT ![t].chain = chains[req[t].llm_type]]
            /\ pc' = [pc EXCEPT ![t] = IF req[t].op = "query" THEN "query" ELSE "done"]
            /\ handed' = IF loc[t].epoch = clears
                         THEN handed \cup {<<req[t].llm_type, chains[req[t].llm_type]>>}
                         ELSE handed
       ELSE /\ loc' = [loc EXCEPT ![t].chain = 0, ![t].err = "KeyError"]
            /\ pc' = [pc EXCEPT ![t] = "raised"]
            /\ handed' = handed
    /\ UNCHANGED <<sched, noted, settings, file, cfg, chains, objs, req, clears, retired,
                   ing, store, runs, nokey, dir>>

\* ------------------------------------------------------ RAGChain.query
\* page_content[:200]
PreviewLen == 200

\* a text of the given length, as its characters; 0 stands for "."
Text(len) == [i \in 1..len |-> i]
Ellipsis == <<0, 0, 0>>
Min(a, b) == IF a < b THEN a ELSE b
\* seq[:n]
Slice(seq, n) == SubSeq(seq, 1, Min(n, Len(seq)))

RECURSIVE Reverse(_)
Reverse(seq) == IF seq = <<>> THEN <<>> ELSE Append(Reverse(Tail(seq)), Head(seq))

\* the chunks of the collection by decreasing similarity to the question: the
\* vector store decides, here one question ranks them as stored, the other reversed
Ranking(collection, question) ==
    IF question = "q1" THEN collection ELSE Reverse(collection)

\* a retriever that ignores search_kwargs
Retrieved_Unbounded(collection, question, k) == Ranking(collection, question)

\* self._retriever.invoke(question): the k most similar chunks, most similar first
Retrieved(collection, question, k) == Slice(Ranking(collection, question), k)

\* doc.metadata of a stored chunk
Metadata(doc) == [source_file |-> doc.source_file, file_type |-> doc.file_type]

\* a preview that is the slice alone
source_info_Bare(doc) ==
    [content |-> Slice(Text(doc.len), PreviewLen), metadata |-> Metadata(doc)]

\* source_info = {"content": doc.page_content[:200] + "...", "metadata": doc.metadata}
source_info(doc) ==
    [content |-> Slice(Text(doc.len), PreviewLen) \o Ellipsis,
     metadata |-> Metadata(doc)]

\* a note that looks at what was retrieved
privacy_note_BySources(llm_type, source_docs) ==
    IF llm_type = "ollama" \/ source_docs = <<>>
    THEN "Processed locally with Ollama - your code stayed private."
    ELSE "Processed with Claude API - context was sent to Anthropic servers."

\* "privacy_note": (... if self.llm_type == "ollama" else ...)
privacy_note(llm_type, source_docs) ==
    IF llm_type = "ollama"
    THEN "Processed locally with Ollama - your code stayed private."
    ELSE "Processed with Claude API - context was sent to Anthropic servers."

\* the identity of a stored chunk
ChunkId(doc) == <<doc.source_file, doc.idx>>

\* a response that reports the default backend
response_DefaultType(chain, question, source_docs, context) ==
    [returned |-> TRUE,
     answer |-> [llm |-> chain.llm, question |-> question,
                 context |-> [i \in DOMAIN context |-> ChunkId(context[i])]],
     sources |-> [i \in DOMAIN source_docs |-> source_info(source_docs[i])],
     llm_type |-> "ollama",
     privacy_note |-> privacy_note(chain.llm_type, source_docs)]

\* response = {...}: the answer is what the LLM makes of the question and of the
\* context the chain's own retrieval gave it
response(chain, question, source_docs, context) ==
    [returned |-> TRUE,
     answer |-> [llm |-> chain.llm, question |-> question,
                 context |-> [i \in DOMAIN context |-> ChunkId(context[i])]],
     sources |-> [i \in DOMAIN source_docs |-> source_info(source_docs[i])],
     llm_type |-> chain.llm_type,
     privacy_note |-> privacy_note(chain.llm_type, source_docs)]

\* an except branch that answers with what it has
query_except_Swallows(chain, question, source_docs) ==
    [raised |-> FALSE, res |-> response(chain, question, source_docs, <<>>)]

\* except Exception as e: logger.error(...); raise
query_except(chain, question, source_docs) == [raised |-> TRUE, res |-> NoResult]

\* what a failure inside the try block of query leaves the caller with
Failed(t, source_docs) ==
    LET out == query_except(objs[loc[t].chain], req[t].question, source_docs) IN
    /\ pc' = [pc EXCEPT ![t] = IF out.raised THEN "raised" ELSE "done"]
    /\ loc' = [loc EXCEPT ![t].res = out.res, ![t].qfail = TRUE,
                          ![t].err = IF out.raised THEN "QueryError" ELSE None]
    /\ noted' = noted

\* source_docs = self._retriever.invoke(question), which raises when ok is FALSE
Retrieve(t, ok) ==
    /\ pc[t] = "query"
    /\ IF ok
       THEN /\ loc' = [loc EXCEPT ![t].source_docs =
                          Retrieved(store, req[t].question, objs[loc[t].chain].top_k)]
            /\ pc' = [pc EXCEPT ![t] = "answer"]
            /\ noted' = noted
       ELSE Failed(t, <<>>)
    /\ UNCHANGED <<sched, settings, file, cfg, chains, objs, req, clears,
                   retired, handed, ing, store, runs, nokey, dir>>

\* answer = self.qa_chain.invoke(question), which retrieves again and raises when
\* ok is FALSE; then the sources, the response and the return
Generate(t, ok) ==
    /\ pc[t] = "answer"
    /\ IF ok
       THEN LET chain == objs[loc[t].chain]
                context == Retrieved(store, req[t].question, chain.top_k)
                r == response(chain, req[t].question, loc[t].source_docs, context)
            IN /\ loc' = [loc EXCEPT ![t].res = r]
               /\ pc' = [pc EXCEPT ![t] = "done"]
               /\ noted' = IF noted = NoneNoted
                           THEN [llm_type |-> r.llm_type,
                                 privacy_note |-> r.privacy_note,
                                 question |-> req[t].question,
                                 sources |-> [i \in DOMAIN loc[t].source_docs |->
                                                ChunkId(loc[t].source_docs[i])]]
                           ELSE noted
       ELSE Failed(t, loc[t].source_docs)
    /\ UNCHANGED <<sched, settings, file, cfg, chains, objs, req, clears,
                   retired, handed, ing, store, runs, nokey, dir>>

\* the call is over: its result or its exception has reached the caller
Return(t) ==
    /\ pc[t] \in {"done", "raised", "rejected"}
    /\ pc' = [pc EXCEPT ![t] = "idle"]
    /\ req' = [req EXCEPT ![t] = IdleReq]
    /\ loc' = [loc EXCEPT ![t] = IdleLoc]
    /\ UNCHANGED <<sched, noted, settings, file, cfg, chains, objs, clears, retired, handed,
                   ing, store, runs, nokey, dir>>

\* ------------------------------------------------------- configuration
\* a handler that forgets chains.clear()
Cleared_Kept(ch) == ch

\* chain_manager.chains.clear()
Cleared(ch) == EmptyDict

Range(f) == {f[x] : x \in DOMAIN f}

\* PUT /config: update_settings(updates) = ConfigManager.update, whose save()
\* may raise after self._settings was assigned
PutConfig(u, saveOK) ==
    /\ MayStart
    /\ cfg.pc = "idle"
    /\ settings.ver < MaxCfg
    /\ IF ~Validates(u)
       THEN /\ cfg' = [pc |-> "responded", kind |-> "put", old |-> Cur(settings),
                       status |-> 400]
            /\ UNCHANGED <<settings, file>>
       ELSE /\ settings' = [_deep_update(Cur(settings), u) @@ [ver |-> 0]
                               EXCEPT !.ver = settings.ver + 1]
            /\ IF saveOK
               THEN /\ file' = Dumped(_deep_update(Cur(settings), u))
                    /\ cfg' = [pc |-> "clear", kind |-> "put", old |-> Cur(settings),
                               status |-> 0]
               ELSE /\ file' = file
                    /\ cfg' = [pc |-> "responded", kind |-> "put",
                               old |-> Cur(settings), status |-> 400]
    /\ UNCHANGED <<sched, noted, chains, objs, pc, req, loc, clears, retired, handed, ing,
                   store, runs, nokey, dir>>

\* POST /config/reload: reload_settings() = ConfigManager.load
ReloadConfig(saveOK) ==
    /\ MayStart
    /\ cfg.pc = "idle"
    /\ settings.ver < MaxCfg
    /\ settings' = [(IF file.state = "ok" THEN Cur(file) ELSE DefaultSettings)
                       @@ [ver |-> 0] EXCEPT !.ver = settings.ver + 1]
    /\ IF file = Missing /\ ~saveOK
       THEN /\ cfg' = [pc |-> "responded", kind |-> "reload", old |-> Cur(settings),
                       status |-> 500]
            /\ file' = file
       ELSE /\ cfg' = [pc |-> "clear", kind |-> "reload", old |-> Cur(settings),
                       status |-> 0]
            /\ file' = IF file = Missing THEN Dumped(DefaultSettings) ELSE file
    /\ UNCHANGED <<sched, noted, chains, objs, pc, req, loc, clears, retired, handed, ing,
                   store, runs, nokey, dir>>

\* chain_manager.chains.clear() and the handler's return
ClearCache ==
    /\ cfg.pc = "clear"
    /\ chains' = Cleared(chains)
    /\ retired' = retired \cup Range(chains)
    /\ clears' = clears + 1
    /\ handed' = {}
    /\ cfg' = [cfg EXCEPT !.pc = "responded", !.status = 200]
    /\ UNCHANGED <<sched, noted, settings, file, objs, pc, req, loc, ing, store, runs, nokey, dir>>

\* the response has been sent
Respond ==
    /\ cfg.pc = "responded"
    /\ cfg' = IdleCfg
    /\ UNCHANGED <<sched, noted, settings, file, chains, objs, pc, req, loc, clears,
                   retired, handed, ing, store, runs, nokey, dir>>

\* config.yaml is edited, removed or damaged outside the program
EditFile(f) ==
    /\ sched # "pipeline"
    /\ cfg.pc = "idle"
    /\ settings.ver < MaxCfg
    /\ f # file
    /\ file' = f
    /\ UNCHANGED <<sched, noted, settings, cfg, chains, objs, pc, req, loc, clears, retired,
                   handed, ing, store, runs, nokey, dir>>

\* ------------------------------------------------------------ ingestion
\* File extensions, spelled out so that stripping and restoring the dot is computed
Py == <<".", "p", "y">>
Txt == <<".", "t", "x", "t">>
Md == <<".", "m", "d">>
Toml == <<".", "t", "o", "m", "l">>
\* the suffix of SCRIPT.PY, which rglob("*.py") matches where names are matched
\* without regard to case
PyUpper == <<".", "P", "Y">>
\* Path.suffix of a file named ".toml" (rglob("*.toml") matches it): the empty string
NoSuffix == <<>>

\* str.lower() on the characters the suffixes are made of
lower(s) ==
    [i \in 1..Len(s) |-> CASE s[i] = "P" -> "p" [] s[i] = "Y" -> "y" [] OTHER -> s[i]]

\* settings.ingestion.supported_file_types, in the order of the dict (a part of it)
supported_file_types ==
    << [category |-> "documentation", exts |-> {Md, Txt}],
       [category |-> "python", exts |-> {Py}],
       [category |-> "rust", exts |-> {Toml}],
       [category |-> "data", exts |-> {Toml}] >>

\* DocumentIngestor.LANGUAGE_SPLITTER_MAP (a part of it)
LANGUAGE_SPLITTER_MAP == (Py :> "python") @@ (Md :> "markdown")

\* ext.lstrip(".")
RECURSIVE lstrip_dot(_)
lstrip_dot(ext) ==
    IF ext # <<>> /\ Head(ext) = "." THEN lstrip_dot(Tail(ext)) ELSE ext

\* a lookup with the file type as it is stored, without its dot
with_dot_Forgotten(file_type) == file_type

\* if ext and not ext.startswith('.'): ext = f".{ext}"
with_dot(file_type) ==
    IF file_type # <<>> /\ Head(file_type) # "." THEN <<".">> \o file_type
    ELSE file_type

\* a search that ends on the first category of the table instead of "unknown"
RECURSIVE FirstCategory_Default(_, _)
FirstCategory_Default(ext, i) ==
    IF i > Len(supported_file_types) THEN supported_file_types[1].category
    ELSE IF ext \in supported_file_types[i].exts THEN supported_file_types[i].category
    ELSE FirstCategory_Default(ext, i + 1)

\* categorize_file: the first category of the table that lists the extension
RECURSIVE FirstCategory(_, _)
FirstCategory(ext, i) ==
    IF i > Len(supported_file_types) THEN "unknown"
    ELSE IF ext \in supported_file_types[i].exts THEN supported_file_types[i].category
    ELSE FirstCategory(ext, i + 1)

categorize_file(f) ==
    LET ext == lower(f.suffix)
        category == FirstCategory(ext, 1) IN
    [category |-> category, extension |-> ext,
     is_code |-> category \notin {"documentation", "data", "unknown"},
     is_documentation |-> category = "documentation"]

\* The files a run can discover.  fault names what fails for the file: "load" its
\* loader, "lang" the language splitter on its text, "generic" the generic
\* splitter, "both" the two splitters, "ctor" the construction of a language
\* splitter attempted for it
Faults == {"none", "load", "lang", "generic", "both", "ctor"}
FileOf(n, suffix, len, fault) ==
    [name |-> n, suffix |-> suffix, len |-> len, fault |-> fault]

\* load_single_file: the documents of one file, none when its loader raises
load_single_file(f) ==
    LET file_info == categorize_file(f)
        ext == file_info.extension IN
    IF f.fault = "load" THEN <<>>
    ELSE << [source_file |-> f.name,
             len |-> f.len,
             source_type |-> IF file_info.is_code THEN "code" ELSE "documentation",
             file_type |-> lstrip_dot(ext),
             category |-> file_info.category,
             language |-> IF ext \in DOMAIN LANGUAGE_SPLITTER_MAP
                          THEN LANGUAGE_SPLITTER_MAP[ext] ELSE None,
             fault |-> f.fault] >>

\* sorted(files_by_category.items()): the categories in the order of their names
SortedCategories == <<"data", "documentation", "python", "rust", "unknown">>

\* files_by_category, flattened in the order the files are loaded in
RECURSIVE files_by_category(_, _)
files_by_category(files, i) ==
    IF i > Len(SortedCategories) THEN <<>>
    ELSE SelectSeq(files, LAMBDA f : categorize_file(f).category = SortedCategories[i])
         \o files_by_category(files, i + 1)

\* a loop that an exception of one file leaves
RECURSIVE LoadEach_StopsAtFailure(_)
LoadEach_StopsAtFailure(files) ==
    IF files = <<>> \/ Head(files).fault = "load" THEN <<>>
    ELSE load_single_file(Head(files)) \o LoadEach_StopsAtFailure(Tail(files))

\* for file_path in files: documents.extend(self.load_single_file(file_path))
RECURSIVE LoadEach(_)
LoadEach(files) ==
    IF files = <<>> THEN <<>>
    ELSE load_single_file(Head(files)) \o LoadEach(Tail(files))

load_documents(files) == LoadEach(files_by_category(files, 1))

\* a splitter whose separators do not end with "": a text is kept whole
Pieces_Whole(len, size) == IF len <= 0 THEN <<>> ELSE <<len>>

\* The pieces a RecursiveCharacterTextSplitter cuts a text of length len into
RECURSIVE Pieces(_, _)
Pieces(len, size) ==
    IF len <= 0 THEN <<>>
    ELSE IF len <= size THEN <<len>>
    ELSE <<size>> \o Pieces(len - size, size)

ChunksOf(doc, by) ==
    LET p == Pieces(doc.len, ChunkSize) IN
    [i \in 1..Len(p) |-> [source_file |-> doc.source_file, file_type |-> doc.file_type,
                          idx |-> i, size |-> p[i], by |-> by]]

\* splitter.split_documents([doc]) for the two kinds of splitter
LanguageSplit(doc) ==
    IF doc.fault \in {"lang", "both"} THEN [ok |-> FALSE, chunks |-> <<>>]
    ELSE [ok |-> TRUE, chunks |-> ChunksOf(doc, "language")]

GenericSplit(doc) ==
    IF doc.fault \in {"generic", "both"} THEN [ok |-> FALSE, chunks |-> <<>>]
    ELSE [ok |-> TRUE, chunks |-> ChunksOf(doc, "generic")]

\* the splitter the try block uses first
UsesLanguageSplitter(doc) == with_dot(doc.file_type) \in DOMAIN LANGUAGE_SPLITTER_MAP

\* a get_language_splitter that builds a new splitter on every call
get_language_splitter_Uncached(language_splitters, language, raises, fresh) ==
    IF raises
    THEN [raised |-> TRUE, constructed |-> FALSE, splitter |-> 0,
          language_splitters |-> language_splitters]
    ELSE [raised |-> FALSE, constructed |-> TRUE, splitter |-> fresh,
          language_splitters |-> (language :> fresh) @@ language_splitters]

\* get_language_splitter: the cached splitter of the language, built and cached
\* when there is none; fresh is the identity of a splitter built now, raises
\* says that from_language fails
get_language_splitter(language_splitters, language, raises, fresh) ==
    IF language \in DOMAIN language_splitters
    THEN [raised |-> FALSE, constructed |-> FALSE,
          splitter |-> language_splitters[language],
          language_splitters |-> language_splitters]
    ELSE IF raises
    THEN [raised |-> TRUE, constructed |-> FALSE, splitter |-> 0,
          language_splitters |-> language_splitters]
    ELSE [raised |-> FALSE, constructed |-> TRUE, splitter |-> fresh,
          language_splitters |-> (language :> fresh) @@ language_splitters]

\* an except branch that only logs
Fallback_Drops(doc) == [ok |-> TRUE, chunks |-> <<>>]

\* an except branch whose fallback is not guarded by a try of its own
Fallback_Unguarded(doc) == GenericSplit(doc)

\* the except branch: the default splitter, and nothing when it raises too
Fallback(doc) ==
    IF GenericSplit(doc).ok THEN GenericSplit(doc) ELSE [ok |-> TRUE, chunks |-> <<>>]

\* one iteration of the loop of split_documents, with the ingestor's cache of
\* splitters as it is before: the chunks the document adds, the cache after, and
\* the call of get_language_splitter it makes, if any; ok is FALSE when an
\* exception leaves the loop
SplitOne(doc, language_splitters, fresh) ==
    LET language == LANGUAGE_SPLITTER_MAP[with_dot(doc.file_type)]
        got == get_language_splitter(language_splitters, language,
                                     doc.fault = "ctor", fresh)
        first == IF UsesLanguageSplitter(doc)
                 THEN IF got.raised THEN [ok |-> FALSE, chunks |-> <<>>]
                      ELSE LanguageSplit(doc)
                 ELSE GenericSplit(doc)
        r == IF first.ok THEN first ELSE Fallback(doc)
    IN [ok |-> r.ok, chunks |-> r.chunks,
        language_splitters |-> IF UsesLanguageSplitter(doc)
                               THEN got.language_splitters ELSE language_splitters,
        calls |-> IF UsesLanguageSplitter(doc)
                  THEN << [language |-> language, raised |-> got.raised,
                           constructed |-> got.constructed,
                           splitter |-> got.splitter] >>
                  ELSE <<>>]

\* for doc in documents: ..., from a given state of the cache
RECURSIVE SplitEach(_, _, _)
SplitEach(docs, language_splitters, fresh) ==
    IF docs = <<>>
    THEN [ok |-> TRUE, chunks |-> <<>>, language_splitters |-> language_splitters,
          calls |-> <<>>]
    ELSE LET one == SplitOne(Head(docs), language_splitters, fresh)
             rest == SplitEach(Tail(docs), one.language_splitters, fresh + 1)
         IN [ok |-> one.ok /\ rest.ok,
             chunks |-> IF one.ok /\ rest.ok THEN one.chunks \o rest.chunks ELSE <<>>,
             language_splitters |-> rest.language_splitters,
             calls |-> one.calls \o rest.calls]

\* split_documents on the ingestor of a run, whose cache __init__ left empty
split_documents(docs) == SplitEach(docs, EmptyDict, 1)

\* a write that adds every chunk a second time
Embedded_Twice(chunks, emb) ==
    [i \in 1..(2 * Len(chunks)) |->
        [source_file |-> chunks[((i - 1) % Len(chunks)) + 1].source_file,
         idx |-> chunks[((i - 1) % Len(chunks)) + 1].idx, emb |-> emb,
         len |-> chunks[((i - 1) % Len(chunks)) + 1].size,
         file_type |-> chunks[((i - 1) % Len(chunks)) + 1].file_type]]

\* Chroma.from_documents: every chunk is embedded with the ingestor's model and added
Embedded(chunks, emb) ==
    [i \in 1..Len(chunks) |-> [source_file |-> chunks[i].source_file,
                               idx |-> chunks[i].idx, emb |-> emb,
                               len |-> chunks[i].size,
                               file_type |-> chunks[i].file_type]]

\* run_ingestion without its second early return
HasChunks_Always(chunks) == TRUE

\* run_ingestion goes on to the store only with documents and with chunks
HasDocuments(docs) == docs # <<>>
HasChunks(chunks) == chunks # <<>>

\* the directories a run can find: docs_path holds up to MaxDocs supported files
Exts == {Py, Txt}
Lens == {0, MaxLen}
\* further suffixes, on files that load and split without a fault
OtherSuffixes == {Md, Toml, PyUpper, NoSuffix}
FileSet(n) ==
    {FileOf(n, e, l, x) : e \in Exts, l \in Lens, x \in Faults}
        \cup {FileOf(n, e, MaxLen, "none") : e \in OtherSuffixes}
RECURSIVE Dirs(_)
Dirs(n) ==
    IF n = 0 THEN {<<>>}
    ELSE Dirs(n - 1) \cup {Append(d, f) : d \in {x \in Dirs(n - 1) : Len(x) = n - 1},
                                          f \in FileSet(n)}
\* beside the manager only the store's contents matter: one file, or none
Directories ==
    IF sched = "pipeline" THEN Dirs(MaxDocs)
    ELSE IF sched = "serve" THEN {<<>>, <<FileOf(1, Txt, MaxLen, "none")>>}
    ELSE {<<>>}

\* what the collection holds when the service starts: nothing, or the chunks an
\* earlier run made of longer files with the default model, one chunk a file
Stored(i, len) == [source_file |-> 0 - i, idx |-> 1, emb |-> DefaultEmb,
                   len |-> len, file_type |-> lstrip_dot(Md)]
Collections ==
    IF sched = "serve" THEN {<<>>, <<Stored(1, PreviewLen)>>}
    ELSE IF sched = "query"
    THEN {<<>>, <<Stored(1, 0)>>,
          <<Stored(1, PreviewLen + 1), Stored(2, PreviewLen - 1),
            Stored(3, PreviewLen)>>}
    ELSE {<<>>}

\* the force_reingest a run can be asked with: a field of the POST /ingest body,
\* nothing the command line has
Forces == IF sched = "pipeline" THEN {FALSE} ELSE BOOLEAN

\* POST /ingest adds the task (or `ingest` is run from the command line); with
\* force_reingest the handler logs a warning and does nothing else
StartIngest(force_reingest) ==
    /\ sched = "pipeline" \/ (sched = "serve" /\ LoopFree)
    /\ ing.pc = "idle"
    /\ runs < (IF sched = "pipeline" THEN MaxRuns ELSE MaxBgRuns)
    /\ runs' = runs + 1
    /\ ing' = [IdleIng EXCEPT !.pc = "init", !.before = store,
                              !.force = force_reingest]
    /\ UNCHANGED <<sched, noted, settings, file, cfg, chains, objs, pc, req, loc, clears,
                   retired, handed, store, nokey, dir>>

\* DocumentIngestor(): the embedding model of the settings in effect
IngestorInit ==
    /\ ing.pc = "init"
    /\ ing' = [ing EXCEPT !.pc = "load", !.emb = settings.emb]
    /\ UNCHANGED <<sched, noted, settings, file, cfg, chains, objs, pc, req, loc, clears,
                   retired, handed, store, runs, nokey, dir>>

\* documents = self.load_documents(...); if not documents: warning, return
LoadDocuments ==
    /\ ing.pc = "load"
    /\ LET documents == load_documents(dir) IN
       ing' = IF HasDocuments(documents)
              THEN [ing EXCEPT !.pc = "split", !.files = dir, !.docs = documents]
              ELSE [ing EXCEPT !.pc = "finished", !.files = dir, !.docs = documents,
                               !.outcome = "No documents found to ingest!"]
    /\ UNCHANGED <<sched, noted, settings, file, cfg, chains, objs, pc, req, loc, clears,
                   retired, handed, store, runs, nokey, dir>>

\* chunks = self.split_documents(documents); if not chunks: warning, return
SplitDocuments ==
    /\ ing.pc = "split"
    /\ LET r == split_documents(ing.docs) IN
       ing' = IF ~r.ok
              THEN [ing EXCEPT !.pc = "finished", !.outcome = "Ingestion failed",
                               !.language_splitters = r.language_splitters,
                               !.calls = r.calls]
              ELSE IF HasChunks(r.chunks)
              THEN [ing EXCEPT !.pc = "write", !.chunks = r.chunks,
                               !.language_splitters = r.language_splitters,
                               !.calls = r.calls]
              ELSE [ing EXCEPT !.pc = "finished", !.chunks = r.chunks,
                               !.language_splitters = r.language_splitters,
                               !.calls = r.calls,
                               !.outcome = "No chunks created from documents!"]
    /\ UNCHANGED <<sched, noted, settings, file, cfg, chains, objs, pc, req, loc, clears,
                   retired, handed, store, runs, nokey, dir>>

\* self.ingest_to_vectorstore(chunks)
IngestToVectorstore ==
    /\ ing.pc = "write"
    /\ store' = store \o Embedded(ing.chunks, ing.emb)
    /\ ing' = [ing EXCEPT !.pc = "finished", !.writes = ing.writes + 1,
                          !.outcome = "Ingestion complete!"]
    /\ UNCHANGED <<sched, noted, settings, file, cfg, chains, objs, pc, req, loc, clears,
                   retired, handed, runs, nokey, dir>>

\* run_ingestion has returned
IngestDone ==
    /\ ing.pc = "finished"
    /\ ing' = IdleIng
    /\ UNCHANGED <<sched, noted, settings, file, cfg, chains, objs, pc, req, loc, clears,
                   retired, handed, store, runs, nokey, dir>>

\* ---------------------------------------------------------------- specs
InitCommon ==
    /\ \E k \in BOOLEAN :
          /\ \E n \in (IF sched = "query" THEN TopKs ELSE {DefaultTopK}) :
                settings = [key |-> k, emb |-> DefaultEmb, top_k |-> n, ver |-> 0]
          /\ file = Dumped(settings)
    /\ cfg = IdleCfg
    /\ chains = EmptyDict
    /\ objs = <<>>
    /\ pc = [t \in Threads |-> "idle"]
    /\ req = [t \in Threads |-> IdleReq]
    /\ loc = [t \in Threads |-> IdleLoc]
    /\ clears = 0
    /\ retired = {}
    /\ handed = {}
    /\ nokey = FALSE
    /\ dir \in Directories
    /\ ing = IdleIng
    /\ store \in Collections
    /\ runs = 0
    /\ noted = NoneNoted

Init == sched = "loop" /\ InitCommon
InitQuery == sched = "query" /\ InitCommon
InitServe == sched = "serve" /\ InitCommon
InitThreads == sched = "threads" /\ InitCommon
InitIngest == sched = "pipeline" /\ InitCommon

Ingestion ==
    \/ \E force_reingest \in Forces : StartIngest(force_reingest)
    \/ IngestorInit
    \/ LoadDocuments
    \/ SplitDocuments
    \/ IngestToVectorstore
    \/ IngestDone

Next ==
    \/ \E t \in Threads, b \in LlmTypes : Call(t, "get_chain", b)
    \/ \E t \in Threads : Check(t)
    \/ \E t \in Threads : Construct(t)
    \/ \E t \in Threads : InitLLM(t)
    \/ \E t \in Threads : Store(t)
    \/ \E t \in Threads : Lookup(t)
    \/ \E t \in Threads : Return(t)
    \/ \E u \in Updates, saveOK \in BOOLEAN : PutConfig(u, saveOK)
    \/ \E saveOK \in BOOLEAN : ReloadConfig(saveOK)
    \/ ClearCache
    \/ Respond
    \/ \E f \in FileStates : EditFile(f)

\* POST /query
NextQuery ==
    \/ \E t \in Threads, b \in Backends : Call(t, "query", b)
    \/ \E t \in Threads : QueryRagNoKey(t)
    \/ \E t \in Threads : Check(t)
    \/ \E t \in Threads : Construct(t)
    \/ \E t \in Threads : InitLLM(t)
    \/ \E t \in Threads : Store(t)
    \/ \E t \in Threads : Lookup(t)
    \/ \E t \in Threads, ok \in BOOLEAN : Retrieve(t, ok)
    \/ \E t \in Threads, ok \in BOOLEAN : Generate(t, ok)
    \/ \E t \in Threads : Return(t)

\* POST /query, PUT /config and the background task of POST /ingest
NextServe ==
    \/ NextQuery
    \/ \E u \in ServeUpdates, saveOK \in BOOLEAN : PutConfig(u, saveOK)
    \/ ClearCache
    \/ Respond
    \/ Ingestion

\* the callers of the manager on threads of their own, beside PUT /config
NextThreads ==
    \/ \E t \in Threads, b \in LlmTypes : Call(t, "get_chain", b)
    \/ \E t \in Threads : Check(t)
    \/ \E t \in Threads : Construct(t)
    \/ \E t \in Threads : InitLLM(t)
    \/ \E t \in Threads : Store(t)
    \/ \E t \in Threads : Lookup(t)
    \/ \E t \in Threads : Return(t)
    \/ \E u \in Updates, saveOK \in BOOLEAN : PutConfig(u, saveOK)
    \/ ClearCache
    \/ Respond

Spec == Init /\ [][Next]_vars
SpecThreads == InitThreads /\ [][NextThreads]_vars
SpecQuery == InitQuery /\ [][NextQuery]_vars
SpecServe == InitServe /\ [][NextServe]_vars
SpecIngest == InitIngest /\ [][Ingestion]_vars
\* --------------------------------------------------------------- claims
\* get_chain has returned to its caller, with a chain or with an exception
AfterGetChain(t) == pc[t] \in {"query", "answer", "done", "raised"}
Returned(t) == pc[t] \in {"query", "answer", "done"}

\* the chains built for b by calls that started after the last clear
BuiltSinceClear(b) ==
    {c \in 1..Len(objs) : objs[c].llm_type = b /\ objs[c].epoch = clears}

\* C1: over the get_chain(b) calls that start with no entry for b in the cache and
\* those after them, up to the next clear, at most one RAGChain is constructed for b.
C1_AtMostOneConstruction ==
    \A b \in Backends : Cardinality(BuiltSinceClear(b)) <= 1

\* C2: the get_chain(b) calls between two clears all return the same chain instance.
C2_SameInstance ==
    \A p \in handed, q \in handed : p[1] = q[1] => p[2] = q[2]

C4_FreshAfterClear ==
    /\ \A t \in Threads :
          Returned(t) => /\ loc[t].chain \notin retired
                         /\ objs[loc[t].chain].epoch = clears
    /\ \A b \in DOMAIN chains : chains[b] \notin retired

\* get_chain(b) returns after a clear that removed a chain cached for b
C4_Witness ==
    \E t \in Threads :
        /\ pc[t] = "done" /\ loc[t].missed /\ clears >= 1
        /\ \E c \in retired : objs[c].llm_type = req[t].llm_type

\* C5: when PUT /config or POST /config/reload has changed the settings, the cache
\* is empty when the request returns.
C5_ChangeEmptiesCache ==
    (cfg.pc = "responded" /\ Cur(settings) # cfg.old) => chains = EmptyDict

\* C6: get_chain with an identifier other than "ollama" and "claude" raises, writes
\* nothing to the cache, and the cache has no entry for the identifier.
C6_UnsupportedRejected ==
    /\ \A t \in Threads :
          (AfterGetChain(t) /\ req[t].llm_type \notin Backends) =>
              /\ pc[t] = "raised"
              /\ loc[t].err = "ValueError"
              /\ ~loc[t].wrote
    /\ DOMAIN chains \subseteq Backends

\* a call with the unsupported identifier has ended, beside a non-empty cache
C6_Witness ==
    \E t \in Threads :
        /\ pc[t] = "raised" /\ req[t].llm_type = "gpt"
        /\ chains # EmptyDict

\* C7: the model a query embeds its question with is the model that produced every
\* vector of the store.
C7_SameEmbeddingModel ==
    \A t \in Threads :
        pc[t] = "query" =>
            \A i \in 1..Len(store) : store[i].emb = objs[loc[t].chain].emb

\* split_documents has run in the current ingestion
SplitDone == ing.pc = "write" \/ (ing.pc = "finished" /\ HasDocuments(ing.docs))

\* C8: a run that finds no file, or whose documents give no chunk, ends with a
\* warning and without a write to the store.
C8_NoChunksNoWrite ==
    (ing.pc = "finished"
       /\ (ing.files = <<>> \/ split_documents(load_documents(ing.files)).chunks = <<>>))
    => /\ ing.writes = 0
       /\ store = ing.before
       /\ ing.outcome \in {"No documents found to ingest!",
                           "No chunks created from documents!"}

\* a run with documents and no chunk has ended
C8_Witness ==
    /\ ing.pc = "finished"
    /\ HasDocuments(ing.docs)
    /\ ing.chunks = <<>>
    /\ ing.outcome = "No chunks created from documents!"

\* chunk ch is among the chunks the run has
InChunks(ch) == \E j \in 1..Len(ing.chunks) : ing.chunks[j] = ch
AllInChunks(seq) == \A i \in 1..Len(seq) : InChunks(seq[i])
NoChunkOf(doc) ==
    \A j \in 1..Len(ing.chunks) : ing.chunks[j].source_file # doc.source_file
Docs == {ing.docs[i] : i \in 1..Len(ing.docs)}

\* C9: a document whose language splitter raises is split by the generic splitter,
\* and those chunks are in the result.
C9_FallbackToGeneric ==
    SplitDone =>
        \A d \in Docs :
            (d.language # None /\ d.fault = "lang") =>
                /\ ing.outcome # "Ingestion failed"
                /\ AllInChunks(ChunksOf(d, "generic"))
                /\ (d.len > 0 => ~NoChunkOf(d))

\* split_documents has fallen back to the generic splitter for a document with text
C9_Witness ==
    /\ SplitDone
    /\ \E d \in Docs : d.language # None /\ d.fault = "lang" /\ d.len > 0

\* both the splitter chosen for the document and the fallback raise on it
BothRaise(d) ==
    \/ d.fault = "both"
    \/ d.fault = "generic" /\ d.language = None

\* the chunks a document gives when one of the two splitters works
Expected(d) ==
    IF d.language # None /\ d.fault \in {"none", "generic"}
    THEN ChunksOf(d, "language")
    ELSE ChunksOf(d, "generic")

\* C10: a document on which both splitters raise adds no chunk, no error leaves
\* split_documents, and the chunks of every other document are in the result.
C10_DropOnlyThatDocument ==
    SplitDone =>
        ((\E d \in Docs : BothRaise(d)) =>
            /\ ing.outcome # "Ingestion failed"
            /\ \A d \in Docs :
                  IF BothRaise(d) THEN NoChunkOf(d)
                  ELSE \/ AllInChunks(Expected(d))
                       \/ d.fault = "ctor" /\ AllInChunks(ChunksOf(d, "language")))

\* a batch with one document dropped and another one split
C10_Witness ==
    /\ SplitDone
    /\ \E d \in Docs : BothRaise(d) /\ d.len > 0
    /\ \E d \in Docs : ~BothRaise(d) /\ d.len > 0 /\ ~NoChunkOf(d)
\* load_documents has returned in the current run
Loaded == ing.pc \in {"split", "write", "finished"}

\* the files of the run whose loader does not raise
Loadable == {i \in 1..Len(ing.files) : ing.files[i].fault # "load"}

\* C11: when load_documents has returned, every discovered file whose loader did
\* not raise has its document in the result, whatever happened to the other
\* files, the files that failed have none, and the run has not failed
C11_LoadSkipsFailures ==
    Loaded =>
        /\ \A i \in Loadable :
              \E j \in 1..Len(ing.docs) : ing.docs[j].source_file = ing.files[i].name
        /\ Len(ing.docs) = Cardinality(Loadable)
        /\ ing.outcome # "Ingestion failed"

\* a file failed to load and a file loaded after it is among the documents
C11_Witness ==
    /\ ing.pc = "split"
    /\ Len(ing.files) = 2
    /\ ing.files[1].fault = "load"
    /\ ing.files[2].fault # "load"
    /\ categorize_file(ing.files[1]) = categorize_file(ing.files[2])
    /\ \E j \in 1..Len(ing.docs) : ing.docs[j].source_file = ing.files[2].name

\* the languages that have a splitter
KnownLanguages == Range(LANGUAGE_SPLITTER_MAP)

\* C16: split_documents tries the language splitter first for exactly the documents
\* whose language, declared when they were loaded, is one that has a splitter, and
\* the generic splitter first for all others; when nothing raises the chunks of a
\* document come from the splitter tried first.
C16_LanguageSplitterIffDeclared ==
    SplitDone =>
        \A d \in Docs :
            /\ UsesLanguageSplitter(d) <=> d.language \in KnownLanguages
            /\ d.fault = "none" =>
                  AllInChunks(ChunksOf(d, IF d.language \in KnownLanguages
                                          THEN "language" ELSE "generic"))

\* a batch split with a document of a known language and a document without one
C16_Witness ==
    /\ SplitDone
    /\ \E d \in Docs : d.language \in KnownLanguages /\ d.fault = "none" /\ d.len > 0
                       /\ InChunks(ChunksOf(d, "language")[1])
    /\ \E d \in Docs : d.language = None /\ d.fault = "none" /\ d.len > 0
                       /\ InChunks(ChunksOf(d, "generic")[1])

\* the calls of get_language_splitter the ingestor of the run has served, in order
Calls == 1..Len(ing.calls)
Hit(j) == ~ing.calls[j].raised /\ ~ing.calls[j].constructed

\* C17: among the get_language_splitter calls of one ingestor, once a call has
\* returned a splitter for a language every later call for that language builds
\* nothing and returns that same splitter; a call returns a cached splitter only
\* after a construction that succeeded; and the cache holds an entry exactly for
\* the languages whose construction succeeded, none for a construction that raised.
C17_SplitterBuiltOnce ==
    SplitDone =>
        /\ \A i \in Calls : \A j \in Calls :
              (i < j /\ ing.calls[i].language = ing.calls[j].language
                     /\ ~ing.calls[i].raised) =>
                  Hit(j) /\ ing.calls[j].splitter = ing.calls[i].splitter
        /\ \A j \in Calls :
              Hit(j) => \E i \in Calls : /\ i < j
                                        /\ ing.calls[i].language = ing.calls[j].language
                                        /\ ing.calls[i].constructed
        /\ \A l \in KnownLanguages :
              l \in DOMAIN ing.language_splitters <=>
                  \E i \in Calls : ing.calls[i].language = l /\ ing.calls[i].constructed
        /\ \A i \in Calls :
              ing.calls[i].constructed =>
                  ing.language_splitters[ing.calls[i].language] = ing.calls[i].splitter

\* a second call for a language has been served from the cache
C17_Witness ==
    /\ SplitDone
    /\ Len(ing.calls) = 2
    /\ ing.calls[1].language = ing.calls[2].language
    /\ ing.calls[1].constructed
    /\ Hit(2)
    /\ ing.calls[2].splitter = ing.calls[1].splitter

\* the entries of the table that list an extension
Listed(ext) ==
    {i \in 1..Len(supported_file_types) : ext \in supported_file_types[i].exts}

\* the file a document was loaded from
FileOfDoc(d) == CHOOSE f \in Range(ing.files) : f.name = d.source_file

\* C18: the category recorded on every loaded document is the one categorize_file
\* gives for its file: a category of the table that lists the lower-cased suffix
\* when there is one, and otherwise "unknown" with is_code and is_documentation
\* false; no file makes the run fail.
C18_CategoryFromTable ==
    Loaded =>
        /\ ing.outcome # "Ingestion failed"
        /\ \A d \in Docs :
              LET f == FileOfDoc(d)
                  ext == lower(f.suffix)
                  info == categorize_file(f)
              IN /\ info.extension = ext
                 /\ d.category = info.category
                 /\ IF Listed(ext) # {}
                    THEN \E i \in Listed(ext) :
                            d.category = supported_file_types[i].category
                    ELSE /\ d.category = "unknown"
                         /\ ~info.is_code
                         /\ ~info.is_documentation
                         /\ d.source_type = "documentation"

\* a file whose suffix the table lists and a file whose suffix it does not list
\* have been categorized and loaded
C18_Witness ==
    /\ Loaded
    /\ \E d \in Docs : d.category = "unknown" /\ Listed(lower(FileOfDoc(d).suffix)) = {}
    /\ \E d \in Docs : d.category = "python" /\ FileOfDoc(d).suffix = PyUpper

\* C19: every extension of the configured table that a discovered file has is
\* listed under exactly one category, so that the category found for the file is
\* the same in whatever order the table is searched.
C19_OneCategoryPerExtension ==
    Loaded =>
        \A f \in Range(ing.files) :
            Listed(lower(f.suffix)) # {} => Cardinality(Listed(lower(f.suffix))) = 1

\* C20: a loaded document carries a language only if its file is of a code
\* category and its extension has a language splitter; the documents of the
\* documentation and data categories carry none.
C20_LanguageOnlyOnCode ==
    Loaded =>
        \A d \in Docs :
            /\ d.language # None =>
                  /\ categorize_file(FileOfDoc(d)).is_code
                  /\ lower(FileOfDoc(d).suffix) \in DOMAIN LANGUAGE_SPLITTER_MAP
            /\ d.category \in {"documentation", "data"} => d.language = None

\* query has returned a response dict to caller t
Answered(t) == pc[t] = "done" /\ req[t].op = "query"

\* C12: when the retrieval or the generation of a query fails the caller gets the
\* exception and no response dict, neither a partial nor a substitute one; a
\* response is returned only by a query in which nothing failed.
C12_FailureIsRaised ==
    \A t \in Threads :
        /\ loc[t].qfail =>
              /\ pc[t] = "raised"
              /\ loc[t].err = "QueryError"
              /\ loc[t].res = NoResult
        /\ Answered(t) => ~loc[t].qfail /\ loc[t].res.returned

\* the generation has failed after the retrieval had found chunks
C12_Witness ==
    \E t \in Threads : /\ loc[t].qfail
                        /\ pc[t] = "raised"
                        /\ loc[t].source_docs # <<>>

LocalOnlyNote == "Processed locally with Ollama - your code stayed private."
LeftMachineNote == "Processed with Claude API - context was sent to Anthropic servers."

\* C13: the privacy note of a response is the local-only note when the chain's
\* backend is the local one and the data-left-the-machine note when it is the cloud
\* one, and it is the note of the first response of that backend, whatever the two
\* questions and the chunks retrieved for them were.
C13_NoteByBackend ==
    \A t \in Threads :
        Answered(t) =>
            /\ objs[loc[t].chain].llm_type = "ollama" =>
                  loc[t].res.privacy_note = LocalOnlyNote
            /\ objs[loc[t].chain].llm_type = "claude" =>
                  loc[t].res.privacy_note = LeftMachineNote
            /\ objs[loc[t].chain].llm_type = noted.llm_type =>
                  loc[t].res.privacy_note = noted.privacy_note

\* a second response of the cloud backend, for another question and other chunks
C13_Witness ==
    \E t \in Threads :
        /\ Answered(t)
        /\ objs[loc[t].chain].llm_type = "claude"
        /\ noted.llm_type = "claude"
        /\ req[t].question # noted.question
        /\ loc[t].source_docs # <<>>
        /\ ChunkId(loc[t].source_docs[1]) # noted.sources[1]

\* C14: the sources of a response are as many as the chunks the retriever
\* returned, the i-th source being made of the i-th chunk, and never more than the
\* top_k the chain's retriever was configured with.
C14_SourcesAreRetrieved ==
    \A t \in Threads :
        Answered(t) =>
            /\ Len(loc[t].res.sources) = Len(loc[t].source_docs)
            /\ \A i \in 1..Len(loc[t].source_docs) :
                  loc[t].res.sources[i].metadata = Metadata(loc[t].source_docs[i])
            /\ Len(loc[t].res.sources) <= objs[loc[t].chain].top_k

\* a response whose sources are the top_k of a larger collection, in the order of
\* the question that ranks them last to first
C14_Witness ==
    \E t \in Threads :
        /\ Answered(t)
        /\ req[t].question = "q2"
        /\ Len(store) > objs[loc[t].chain].top_k
        /\ Len(loc[t].res.sources) = objs[loc[t].chain].top_k
        /\ Len(loc[t].res.sources) > 1
        /\ loc[t].res.sources[1].metadata = Metadata(store[Len(store)])

\* the length of the part of a chunk's text that a preview shows
Shown(doc) == Min(doc.len, PreviewLen)

\* C15 as stated: the content of every source is the first 200 characters of its
\* chunk's text, the whole text when that is shorter, and its metadata is the
\* chunk's metadata.
C15_PreviewIsPrefix ==
    \A t \in Threads :
        Answered(t) =>
            \A i \in 1..Len(loc[t].source_docs) :
                LET doc == loc[t].source_docs[i]
                    src == loc[t].res.sources[i]
                IN /\ Len(src.content) = Shown(doc)
                   /\ \A j \in 1..Shown(doc) : src.content[j] = Text(doc.len)[j]
                   /\ src.metadata = Metadata(doc)

\* C15 amended: the content of every source is the first 200 characters of its
\* chunk's text, the whole text when that is shorter, followed by "..." in every
\* case, and its metadata is the chunk's metadata.
C15_PreviewIsPrefixAndEllipsis ==
    \A t \in Threads :
        Answered(t) =>
            \A i \in 1..Len(loc[t].source_docs) :
                LET doc == loc[t].source_docs[i]
                    src == loc[t].res.sources[i]
                IN /\ Len(src.content) = Shown(doc) + Len(Ellipsis)
                   /\ \A j \in 1..Shown(doc) : src.content[j] = Text(doc.len)[j]
                   /\ \A j \in 1..Len(Ellipsis) :
                         src.content[Shown(doc) + j] = Ellipsis[j]
                   /\ src.metadata = Metadata(doc)

\* a response with a source of a chunk longer than 200 characters and a source
\* of a chunk shorter than that
C15_Witness ==
    \E t \in Threads :
        /\ Answered(t)
        /\ \E i \in 1..Len(loc[t].source_docs) : loc[t].source_docs[i].len > PreviewLen
        /\ \E i \in 1..Len(loc[t].source_docs) : loc[t].source_docs[i].len < PreviewLen

\* C21: a run over files that an earlier run has already ingested leaves the
\* collection as that earlier run left it: the same chunks, none of them twice.
C21_IngestIsUpsert ==
    (ing.pc = "finished" /\ ing.before # <<>>) =>
        /\ store = ing.before
        /\ \A i \in 1..Len(store) : \A j \in 1..Len(store) :
              store[i] = store[j] => i = j

\* C22: when a run asked for with force_reingest has written, the collection
\* holds the chunks of that run and nothing that was there before it.
C22_ForceReingestClears ==
    (ing.force /\ ing.pc = "finished" /\ ing.writes > 0) =>
        store = Embedded(ing.chunks, ing.emb)

\* C23: every chunk split_documents has returned is at most chunk_size long,
\* whether the language splitter or the generic splitter made it.
C23_ChunkWithinSize ==
    SplitDone =>
        \A j \in 1..Len(ing.chunks) :
            /\ ing.chunks[j].size <= ChunkSize
            /\ ing.chunks[j].by \in {"language", "generic"}

\* texts longer than chunk_size have been split, one by each kind of splitter
C23_Witness ==
    /\ SplitDone
    /\ \E d \in Docs : d.len > ChunkSize /\ InChunks(ChunksOf(d, "language")[1])
    /\ \E d \in Docs : d.len > ChunkSize /\ InChunks(ChunksOf(d, "generic")[1])

\* C24: the chunks a response reports as its sources are the chunks whose text was
\* the context of the prompt that produced its answer, in the same order.
C24_SourcesAreContext ==
    \A t \in Threads :
        Answered(t) =>
            loc[t].res.answer.context =
                [i \in DOMAIN loc[t].source_docs |-> ChunkId(loc[t].source_docs[i])]

\* C25: every configuration change that is followed by a clear installs a newer
\* settings object, so a get_chain call that started after n clears had completed
\* returns a chain constructed from the n-th settings object or a later one, never
\* from settings that were in effect before the change the last clear followed.
C25_NoStaleChainAfterClear ==
    \A t \in Threads :
        Returned(t) => objs[loc[t].chain].ver >= loc[t].epoch

\* C26: a get_chain call fails only with the ValueError of a backend that cannot
\* be constructed; its final lookup in the cache never fails, whatever clears the
\* cache while the call is running.
C26_LookupNeverFails ==
    \A t \in Threads :
        (pc[t] = "raised" /\ req[t].op = "get_chain") =>
            /\ loc[t].err = "ValueError"
            /\ loc[t].err # "KeyError"

\* C27: when PUT /config answers with an error status the active settings are
\* the settings that were active before the request.
C27_FailedPutChangesNothing ==
    (cfg.pc = "responded" /\ cfg.kind = "put" /\ cfg.status >= 400) =>
        Cur(settings) = cfg.old

\* C28: a POST /query for "claude" made while no key is configured is answered
\* with status 400 and the detail "Claude API key not configured", and no chain
\* has been constructed or looked up for it.
C28_NoKeyIs400 ==
    \A t \in Threads :
        pc[t] = "rejected" =>
            /\ loc[t].http.status_code = 400
            /\ loc[t].http.detail = "Claude API key not configured"
            /\ ~loc[t].missed
            /\ loc[t].chain = 0

\* C29: a run writes to the store at most once; as long as it has not written,
\* and when it stops without writing, the store is as the run found it; and when
\* it has written, every discovered file had been loaded and every document
\* split before, and what the store has gained is the chunks of the run, once.
C29_OneWriteAfterSplit ==
    ing.pc # "idle" =>
        /\ ing.writes <= 1
        /\ ing.writes = 0 => store = ing.before
        /\ ing.writes = 1 =>
              /\ ing.pc = "finished"
              /\ ing.files = dir
              /\ ing.docs = load_documents(dir)
              /\ ing.chunks = split_documents(ing.docs).chunks
              /\ Len(store) = Len(ing.before) + Len(ing.chunks)
              /\ \A i \in 1..Len(ing.before) : store[i] = ing.before[i]
              /\ \A i \in 1..Len(ing.chunks) :
                    /\ store[Len(ing.before) + i].source_file = ing.chunks[i].source_file
                    /\ store[Len(ing.before) + i].idx = ing.chunks[i].idx

\* a run over two files has written its chunks
C29_Witness ==
    /\ ing.pc = "finished"
    /\ ing.writes = 1
    /\ Len(ing.files) = 2
    /\ Len(ing.docs) = 2
    /\ Len(store) > Len(ing.before)

\* C30: every chain in the manager's cache is stored under the backend it was
\* constructed for, and the llm_type of every response of a query is the backend
\* the request named.
C30_KeyIsBackend ==
    /\ \A k \in DOMAIN chains : objs[chains[k]].llm_type = k
    /\ \A t \in Threads :
          Answered(t) =>
              /\ objs[loc[t].chain].llm_type = req[t].llm_type
              /\ loc[t].res.llm_type = req[t].llm_type

\* a query for the cloud backend has been answered while both backends are cached
C30_Witness ==
    /\ DOMAIN chains = Backends
    /\ \E t \in Threads : Answered(t) /\ req[t].llm_type = "claude"
                          /\ loc[t].res.llm_type = "claude"
====
